---------------------------- MODULE Spec2Model ----------------------------
(***************************************************************************)
(* Model of the EdgeWorker responseProvider of src/main.ts: a request      *)
(* handler that turns a JSON body {uname, passwd} into the hex digest of   *)
(* lowercase-NFC(uname) + NFC(passwd).                                     *)
(*                                                                         *)
(* JavaScript strings are sequences of UTF-16 code units (integers), as in *)
(* the language; header values are sequences of one-character strings.     *)
(* An invocation is a coroutine with two await points (request.json() and  *)
(* crypto.subtle.digest()); every action below is one synchronous slice of *)
(* the handler between two awaits.                                         *)
(***************************************************************************)
EXTENDS Integers, Sequences, FiniteSets, TLC

VARIABLES pc, request, myBody, msgUint8, hashBuffer, hex, response, log,
          error, jsonCalls, digestCalls

vars == <<pc, request, myBody, msgUint8, hashBuffer, hex, response, log,
          error, jsonCalls, digestCalls>>

(***************************************************************************)
(* Bounds of the model.                                                    *)
(***************************************************************************)
NumConc == 2
MaxUnameLen == 2
MaxPasswdLen == 3
MaxHeaderLen == 2

(***************************************************************************)
(* Program constants.                                                      *)
(***************************************************************************)
UNAME == "uname"
PASSWD == "passwd"
maxBodyLength == 16384

(***************************************************************************)
(* Generic helpers.                                                        *)
(***************************************************************************)
SeqsUpTo(S, n) == UNION {[1..k -> S] : k \in 0..n}

RECURSIVE Flatten(_)
Flatten(ss) == IF ss = <<>> THEN <<>> ELSE Head(ss) \o Flatten(Tail(ss))

(***************************************************************************)
(* JSON / JavaScript values.                                               *)
(***************************************************************************)
JNull == [t |-> "null"]
JUndefined == [t |-> "undefined"]
JBool(b) == [t |-> "boolean", b |-> b]
JNum(n) == [t |-> "number", n |-> n]
JStr(s) == [t |-> "string", s |-> s]
JArr(a) == [t |-> "array", a |-> a]
JObj(f) == [t |-> "object", f |-> f]
\* the outcome of request.json() when the read or the parse fails
Rejected == [t |-> "rejected"]

\* ToBoolean of a value, as `&&` applies it
Truthy(v) ==
    CASE v.t = "null" -> FALSE
      [] v.t = "undefined" -> FALSE
      [] v.t = "boolean" -> v.b
      [] v.t = "number" -> v.n # 0
      [] v.t = "string" -> v.s # <<>>
      [] OTHER -> TRUE

\* v[name]: a property read on a value that came out of JSON.parse
Get(v, name) ==
    IF v.t = "object" /\ name \in DOMAIN v.f THEN v.f[name] ELSE JUndefined

\* v.length: UTF-16 code units of a string, elements of an array, the
\* property "length" of an object, undefined otherwise
LengthOf(v) ==
    CASE v.t = "string" -> JNum(Len(v.s))
      [] v.t = "array" -> JNum(Len(v.a))
      [] v.t = "object" -> Get(v, "length")
      [] OTHER -> JUndefined

\* v > n for the values LengthOf yields here (undefined > n is false)
GreaterThan(v, n) == v.t = "number" /\ v.n > n

(***************************************************************************)
(* parseInt(string, 10) on a header value.                                 *)
(***************************************************************************)
DigitChars == <<"0", "1", "2", "3", "4", "5", "6", "7", "8", "9">>
IsDigit(c) == \E k \in 1..10 : DigitChars[k] = c
DigitVal(c) == (CHOOSE k \in 1..10 : DigitChars[k] = c) - 1
IsWhiteSpace(c) == c \in {" ", "\t"}

RECURSIVE StripLeadingWS(_)
StripLeadingWS(s) ==
    IF s # <<>> /\ IsWhiteSpace(Head(s)) THEN StripLeadingWS(Tail(s)) ELSE s

RECURSIVE DigitPrefix(_)
DigitPrefix(s) ==
    IF s # <<>> /\ IsDigit(Head(s)) THEN <<Head(s)>> \o DigitPrefix(Tail(s))
    ELSE <<>>

RECURSIVE DecimalValue(_, _)
DecimalValue(ds, acc) ==
    IF ds = <<>> THEN acc
    ELSE DecimalValue(Tail(ds), acc * 10 + DigitVal(Head(ds)))

NaN == [nan |-> TRUE, n |-> 0]

\* parseInt(s, 10); s = JUndefined-like input is the string "undefined"
ParseInt(s) ==
    LET t == StripLeadingWS(s)
        neg == t # <<>> /\ Head(t) = "-"
        u == IF t # <<>> /\ Head(t) \in {"-", "+"} THEN Tail(t) ELSE t
        ds == DigitPrefix(u)
    IN  IF ds = <<>> THEN NaN
        ELSE [nan |-> FALSE,
              n |-> IF neg THEN 0 - DecimalValue(ds, 0) ELSE DecimalValue(ds, 0)]

\* a < b for a the result of parseInt: every comparison with NaN is false
LessThan(a, b) == ~a.nan /\ a.n < b

(***************************************************************************)
(* String.prototype.toLowerCase and normalize("NFC") on the code units of  *)
(* the model's alphabet: E (69), e (101), x (120), E-acute (201),          *)
(* e-acute (233), combining acute accent (769), and the surrogate pair     *)
(* 55357 56832 of U+1F600.                                                 *)
(***************************************************************************)
LowerUnit(u) ==
    CASE u = 69 -> 101
      [] u = 201 -> 233
      [] OTHER -> u

ToLowerCase(s) == [k \in 1..Len(s) |-> LowerUnit(s[k])]

\* canonical decomposition of one code unit
DecomposeUnit(u) ==
    CASE u = 201 -> <<69, 769>>
      [] u = 233 -> <<101, 769>>
      [] OTHER -> <<u>>

Decompose(s) == Flatten([k \in 1..Len(s) |-> DecomposeUnit(s[k])])

\* the primary composite of a starter and the combining acute accent
Composite(starter) ==
    CASE starter = 69 -> 201
      [] starter = 101 -> 233
      [] OTHER -> 0

\* canonical composition, left to right: the accent combines with the
\* starter right before it when a primary composite exists
RECURSIVE Compose(_, _)
Compose(s, out) ==
    IF s = <<>> THEN out
    ELSE IF Head(s) = 769 /\ out # <<>> /\ Composite(out[Len(out)]) # 0
         THEN Compose(Tail(s),
                      SubSeq(out, 1, Len(out) - 1) \o <<Composite(out[Len(out)])>>)
         ELSE Compose(Tail(s), out \o <<Head(s)>>)

NormalizeNFC(s) == Compose(Decompose(s), <<>>)

(***************************************************************************)
(* TextEncoder.encode: UTF-8 of a UTF-16 string; a surrogate pair is one   *)
(* code point, a lone surrogate is encoded as U+FFFD.                      *)
(***************************************************************************)
IsHighSurrogate(u) == u >= 55296 /\ u <= 56319
IsLowSurrogate(u) == u >= 56320 /\ u <= 57343

Utf8OfCodePoint(cp) ==
    IF cp < 128 THEN <<cp>>
    ELSE IF cp < 2048 THEN <<192 + (cp \div 64), 128 + (cp % 64)>>
    ELSE IF cp < 65536
         THEN <<224 + (cp \div 4096), 128 + ((cp \div 64) % 64), 128 + (cp % 64)>>
    ELSE <<240 + (cp \div 262144), 128 + ((cp \div 4096) % 64),
           128 + ((cp \div 64) % 64), 128 + (cp % 64)>>

RECURSIVE TextEncode(_)
TextEncode(s) ==
    IF s = <<>> THEN <<>>
    ELSE IF IsHighSurrogate(s[1]) /\ Len(s) >= 2 /\ IsLowSurrogate(s[2])
         THEN Utf8OfCodePoint(65536 + (s[1] - 55296) * 1024 + (s[2] - 56320))
              \o TextEncode(SubSeq(s, 3, Len(s)))
    ELSE IF IsHighSurrogate(s[1]) \/ IsLowSurrogate(s[1])
         THEN Utf8OfCodePoint(65533) \o TextEncode(Tail(s))
    ELSE Utf8OfCodePoint(s[1]) \o TextEncode(Tail(s))

(***************************************************************************)
(* crypto.subtle.digest: the external digest provider.  It is a            *)
(* deterministic function from (algorithm, bytes) to a byte sequence whose *)
(* length the algorithm fixes; the concrete SHA values are abstracted by   *)
(* a rolling checksum spread over the output bytes.                        *)
(***************************************************************************)
DigestLength(algorithm) ==
    CASE algorithm = "SHA-1" -> 20
      [] algorithm = "SHA-256" -> 32
      [] algorithm = "SHA-384" -> 48
      [] algorithm = "SHA-512" -> 64

RECURSIVE Absorb(_, _)
Absorb(bytes, acc) ==
    IF bytes = <<>> THEN acc
    ELSE Absorb(Tail(bytes), (acc * 257 + Head(bytes) + 7) % 65521)

SubtleDigest(algorithm, bytes) ==
    LET h == Absorb(bytes, 5381)
    IN  [k \in 1..DigestLength(algorithm) |->
            ((h + k) * (2 * k + 1) + (h \div 256) * k) % 256]

(***************************************************************************)
(* generateDigest: the digest bytes as lowercase hex, two digits a byte.   *)
(***************************************************************************)
HexChars == <<"0", "1", "2", "3", "4", "5", "6", "7", "8", "9",
              "a", "b", "c", "d", "e", "f">>

\* b.toString(16)
ToString16(b) ==
    IF b < 16 THEN <<HexChars[b + 1]>>
    ELSE <<HexChars[(b \div 16) + 1], HexChars[(b % 16) + 1]>>

\* a variant without the zero padding
PadStartNone(str) == str

\* str.padStart(2, "0")
PadStart2(str) == IF Len(str) < 2 THEN <<"0">> \o str ELSE str

\* walkable.map((b) => b.toString(16).padStart(2, "0")).join("")
HexOfBytes(bytes) ==
    Flatten([k \in 1..Len(bytes) |-> PadStart2(ToString16(bytes[k]))])

(***************************************************************************)
(* Responses (createResponse(status, headers, body)); a body is the        *)
(* sequence of the text fragments that make up the body string.            *)
(***************************************************************************)
CreateResponse(status, headers, body) ==
    [status |-> status, headers |-> headers, body |-> body]

NoResponse == CreateResponse(0, {}, <<>>)

\* JSON.stringify({ key: hex }) for a string of hex digits
StringifyKey(h) ==
    <<"{", "\"", "k", "e", "y", "\"", ":", "\"">> \o h \o <<"\"", "}">>

SuccessResponse(h) ==
    CreateResponse(200, {<<"Content-Type", <<"application/json">>>>},
                   StringifyKey(h))
BodyErrorResponse ==
    CreateResponse(500, {}, <<"Something wrong with the provided body">>)
TooLargeResponse == CreateResponse(500, {}, <<"Body too large">>)

\* a variant that reports the success at error level
InfoAsError == [level |-> "error",
                msg |-> "SHA-256 hash created from username+password combination"]
InfoEntry == [level |-> "info",
              msg |-> "SHA-256 hash created from username+password combination"]
BodyErrorEntry == [level |-> "error",
                   msg |-> "Something wrong with the request body"]
TooLargeEntry == [level |-> "error", msg |-> "Body too large"]

(***************************************************************************)
(* The handler's conditions.                                               *)
(***************************************************************************)
\* request.getHeader("content-length"): absent, or the list of its values
NoHeader == [present |-> FALSE, values |-> <<>>]
Header(values) == [present |-> TRUE, values |-> values]

\* a variant that lets an unparseable content-length through
SizeCheckNaNPasses(h) ==
    ParseInt(h.values[1]).nan \/ LessThan(ParseInt(h.values[1]), maxBodyLength)

\* a variant with <= in place of <
SizeCheckInclusive(h) == LessThan(ParseInt(h.values[1]), maxBodyLength + 1)

\* parseInt(request.getHeader("content-length")[0], 10) < maxBodyLength
SizeCheck(h) == LessThan(ParseInt(h.values[1]), maxBodyLength)

\* myBody && myBody[UNAME] && myBody[PASSWD] && myBody[PASSWD].length > 1
Validate(body) ==
    /\ Truthy(body)
    /\ Truthy(Get(body, UNAME))
    /\ Truthy(Get(body, PASSWD))
    /\ GreaterThan(LengthOf(Get(body, PASSWD)), 1)

\* toLowerCase / normalize exist on strings only: calling them on any
\* other value is a TypeError
NormalizeThrows(body) ==
    Get(body, UNAME).t # "string" \/ Get(body, PASSWD).t # "string"

\* a variant that does not lowercase the username
NormalizedNoLowerCase(body) ==
    NormalizeNFC(Get(body, UNAME).s) \o NormalizeNFC(Get(body, PASSWD).s)

\* myBody[UNAME].toLowerCase().normalize("NFC") + myBody[PASSWD].normalize("NFC")
NormalizedUnamePasswd(body) ==
    NormalizeNFC(ToLowerCase(Get(body, UNAME).s))
        \o NormalizeNFC(Get(body, PASSWD).s)

(***************************************************************************)
(* Requests the runtime may deliver.                                       *)
(***************************************************************************)
HeaderChars == {"1", "x", " ", "-"}
HeaderStrings ==
    SeqsUpTo(HeaderChars, MaxHeaderLen)
        \cup {<<"1", "6", "3", "8", "3">>, <<"1", "6", "3", "8", "4">>,
              <<"1", "6", "3", "8", "5">>, <<"9", "9", "9", "9", "9", "9">>,
              <<"1", "6", "3", "8", "4", "x">>, <<" ", "+", "1", "6", "3", "8", "3">>,
              <<"0">>, <<"a", "b", "c">>}
Headers ==
    {NoHeader} \cup {Header(<<s>>) : s \in HeaderStrings}
        \cup {Header(<<<<"1", "6", "3", "8", "3">>, <<"1", "6", "3", "8", "4">>>>),
              Header(<<<<"1", "6", "3", "8", "4">>, <<"1">>>>)}
CoreHeaders == {Header(<<<<"1", "6", "3", "8", "3">>>>)}

UnameUnits == {69, 201, 769}
PasswdUnits == {101, 233, 769, 55357, 56832}
UnameStrings == SeqsUpTo(UnameUnits, MaxUnameLen)
PasswdStrings == SeqsUpTo(PasswdUnits, MaxPasswdLen)

Credentials(u, p) == JObj([uname |-> u, passwd |-> p])

\* bodies whose fields are strings
StringBodies ==
    {Credentials(JStr(u), JStr(p)) : u \in UnameStrings, p \in PasswdStrings}

\* field values of the other JSON types
OddValues ==
    {JNull, JBool(TRUE), JBool(FALSE), JNum(0), JNum(12), JStr(<<101, 120>>),
     JArr(<<1>>), JArr(<<1, 2>>), JObj(<<>>), JObj([length |-> JNum(2)])}

\* unreadable bodies, bodies that are no object, objects lacking a field,
\* objects whose fields are no strings
OddBodies ==
    {Rejected, JNull, JBool(TRUE), JNum(0), JNum(5), JStr(<<>>),
     JStr(<<101, 120>>), JArr(<<1, 2>>), JObj(<<>>),
     JObj([uname |-> JStr(<<101>>)]), JObj([passwd |-> JStr(<<101, 120>>)])}
        \cup {Credentials(u, p) : u \in OddValues, p \in OddValues}

Bodies == StringBodies \cup OddBodies
CoreBodies ==
    {Rejected, JObj(<<>>),
     Credentials(JStr(<<69>>), JStr(<<101, 120>>)),
     Credentials(JStr(<<69>>), JStr(<<120>>))}

Req(h, b) == [header |-> h, json |-> b]
NoRequest == Req(NoHeader, Rejected)

Requests ==
    {Req(h, b) : h \in Headers, b \in CoreBodies}
        \cup {Req(h, b) : h \in CoreHeaders, b \in Bodies}

\* the requests of the concurrent runs
ConcHeaders ==
    {NoHeader, Header(<<<<"1", "6", "3", "8", "3">>>>),
     Header(<<<<"1", "6", "3", "8", "4">>>>)}
ConcBodies ==
    {Rejected, Credentials(JNum(12), JStr(<<101, 120>>)),
     Credentials(JStr(<<69>>), JStr(<<120>>))}
        \cup {Credentials(JStr(u), JStr(p)) :
                u \in {<<69>>, <<101, 769>>, <<201>>},
                p \in {<<233, 101>>, <<101, 769, 101>>}}
ConcRequests ==
    {Req(h, Credentials(JStr(<<69>>), JStr(<<101, 120>>))) : h \in ConcHeaders}
        \cup {Req(Header(<<<<"1", "6", "3", "8", "3">>>>), b) : b \in ConcBodies}

(***************************************************************************)
(* The state before any invocation: the invocation slots S, all idle.      *)
(***************************************************************************)
InitOf(S) ==
    /\ pc = [i \in S |-> "idle"]
    /\ request = [i \in S |-> NoRequest]
    /\ myBody = [i \in S |-> JUndefined]
    /\ msgUint8 = [i \in S |-> <<>>]
    /\ hashBuffer = [i \in S |-> <<>>]
    /\ hex = [i \in S |-> <<>>]
    /\ response = [i \in S |-> NoResponse]
    /\ log = [i \in S |-> <<>>]
    /\ error = [i \in S |-> ""]
    /\ jsonCalls = [i \in S |-> 0]
    /\ digestCalls = [i \in S |-> 0]

\* the invocation slots of the sequential and of the concurrent runs
Slots == {1}
ConcSlots == 1..NumConc

Init == InitOf(Slots)
InitConc == InitOf(ConcSlots)

(***************************************************************************)
(* responseProvider on request r, up to its first await.                   *)
(***************************************************************************)
Enter(i, r) ==
    /\ request' = [request EXCEPT ![i] = r]
    /\ hex' = [hex EXCEPT ![i] = <<>>]
    /\ IF ~r.header.present
       THEN \* getHeader returned no array: indexing it throws
            /\ pc' = [pc EXCEPT ![i] = "thrown"]
            /\ error' = [error EXCEPT ![i] = "TypeError"]
            /\ UNCHANGED <<response, log, jsonCalls>>
       ELSE IF SizeCheck(r.header)
       THEN \* request.json() is called and awaited
            /\ pc' = [pc EXCEPT ![i] = "awaitJson"]
            /\ jsonCalls' = [jsonCalls EXCEPT ![i] = @ + 1]
            /\ UNCHANGED <<response, log, error>>
       ELSE /\ pc' = [pc EXCEPT ![i] = "done"]
            /\ response' = [response EXCEPT ![i] = TooLargeResponse]
            /\ log' = [log EXCEPT ![i] = Append(@, TooLargeEntry)]
            /\ UNCHANGED <<error, jsonCalls>>
    /\ UNCHANGED <<myBody, msgUint8, hashBuffer, digestCalls>>

\* the runtime invokes the handler in an idle slot on a request of R
Invoke(i, R) == pc[i] = "idle" /\ \E r \in R : Enter(i, r)

(***************************************************************************)
(* The slice after request.json() has settled with `body`: the validation, *)
(* and on success the normalization and generateDigest up to its await.    *)
(***************************************************************************)
Continue(i, body) ==
    /\ myBody' = [myBody EXCEPT ![i] = body]
    /\ IF ~Validate(body)
       THEN /\ pc' = [pc EXCEPT ![i] = "done"]
            /\ response' = [response EXCEPT ![i] = BodyErrorResponse]
            /\ log' = [log EXCEPT ![i] = Append(@, BodyErrorEntry)]
            /\ UNCHANGED <<msgUint8, digestCalls, error>>
       ELSE IF NormalizeThrows(body)
       THEN /\ pc' = [pc EXCEPT ![i] = "thrown"]
            /\ error' = [error EXCEPT ![i] = "TypeError"]
            /\ UNCHANGED <<msgUint8, digestCalls, response, log>>
       ELSE /\ pc' = [pc EXCEPT ![i] = "awaitDigest"]
            /\ msgUint8' = [msgUint8 EXCEPT
                              ![i] = TextEncode(NormalizedUnamePasswd(body))]
            /\ digestCalls' = [digestCalls EXCEPT ![i] = @ + 1]
            /\ UNCHANGED <<response, log, error>>
    /\ UNCHANGED <<request, hashBuffer, hex, jsonCalls>>

\* .catch(() => null): a rejection of request.json() becomes null
CatchNull(outcome) == IF outcome = Rejected THEN JNull ELSE outcome

\* a variant that lets the rejection of request.json() escape the handler
JsonSettleNoCatch(i) ==
    /\ pc[i] = "awaitJson"
    /\ IF request[i].json = Rejected
       THEN /\ pc' = [pc EXCEPT ![i] = "thrown"]
            /\ error' = [error EXCEPT ![i] = "SyntaxError"]
            /\ UNCHANGED <<request, myBody, msgUint8, hashBuffer, hex, response,
                           log, jsonCalls, digestCalls>>
       ELSE Continue(i, request[i].json)

\* a variant that reads the body again when the first read failed
JsonSettleRetry(i) ==
    /\ pc[i] = "awaitJson"
    /\ IF request[i].json = Rejected /\ jsonCalls[i] < 2
       THEN /\ jsonCalls' = [jsonCalls EXCEPT ![i] = @ + 1]
            /\ UNCHANGED <<pc, request, myBody, msgUint8, hashBuffer, hex,
                           response, log, error, digestCalls>>
       ELSE Continue(i, CatchNull(request[i].json))

(***************************************************************************)
(* request.json() settles, and the handler runs on to its next await or    *)
(* to its end.                                                             *)
(***************************************************************************)
JsonSettle(i) ==
    /\ pc[i] = "awaitJson"
    /\ Continue(i, CatchNull(request[i].json))

\* a variant in which the message to digest sits in a buffer that all
\* invocations share: the digest is the one of any message in flight
DigestSettleShared(i) ==
    /\ pc[i] = "awaitDigest"
    /\ \E j \in DOMAIN pc :
          /\ pc[j] = "awaitDigest"
          /\ LET buffer == SubtleDigest("SHA-256", msgUint8[j])
             IN  /\ hashBuffer' = [hashBuffer EXCEPT ![i] = buffer]
                 /\ hex' = [hex EXCEPT ![i] = HexOfBytes(buffer)]
                 /\ response' = [response EXCEPT
                                   ![i] = SuccessResponse(HexOfBytes(buffer))]
    /\ log' = [log EXCEPT ![i] = Append(@, InfoEntry)]
    /\ pc' = [pc EXCEPT ![i] = "done"]
    /\ UNCHANGED <<request, myBody, msgUint8, error, jsonCalls, digestCalls>>

(***************************************************************************)
(* crypto.subtle.digest settles: the rest of generateDigest, then the      *)
(* info log and the 200 response.                                          *)
(***************************************************************************)
DigestSettle(i) ==
    /\ pc[i] = "awaitDigest"
    /\ LET buffer == SubtleDigest("SHA-256", msgUint8[i])
       IN  /\ hashBuffer' = [hashBuffer EXCEPT ![i] = buffer]
           /\ hex' = [hex EXCEPT ![i] = HexOfBytes(buffer)]
           /\ response' = [response EXCEPT
                             ![i] = SuccessResponse(HexOfBytes(buffer))]
    /\ log' = [log EXCEPT ![i] = Append(@, InfoEntry)]
    /\ pc' = [pc EXCEPT ![i] = "done"]
    /\ UNCHANGED <<request, myBody, msgUint8, error, jsonCalls, digestCalls>>

(***************************************************************************)
(* The runtime has taken the outcome of a finished invocation (a response  *)
(* or a rejected promise); nothing of the invocation remains and the slot  *)
(* can run the next one.                                                   *)
(***************************************************************************)
Release(i) ==
    /\ pc[i] \in {"done", "thrown"}
    /\ pc' = [pc EXCEPT ![i] = "idle"]
    /\ request' = [request EXCEPT ![i] = NoRequest]
    /\ myBody' = [myBody EXCEPT ![i] = JUndefined]
    /\ msgUint8' = [msgUint8 EXCEPT ![i] = <<>>]
    /\ hashBuffer' = [hashBuffer EXCEPT ![i] = <<>>]
    /\ hex' = [hex EXCEPT ![i] = <<>>]
    /\ response' = [response EXCEPT ![i] = NoResponse]
    /\ log' = [log EXCEPT ![i] = <<>>]
    /\ error' = [error EXCEPT ![i] = ""]
    /\ jsonCalls' = [jsonCalls EXCEPT ![i] = 0]
    /\ digestCalls' = [digestCalls EXCEPT ![i] = 0]

Next ==
    \E i \in Slots :
        \/ Invoke(i, Requests)
        \/ JsonSettle(i)
        \/ DigestSettle(i)
        \/ Release(i)

NextConc ==
    \E i \in ConcSlots :
        \/ Invoke(i, ConcRequests)
        \/ JsonSettle(i)
        \/ DigestSettle(i)
        \/ Release(i)

\* one invocation at a time, over the full set of requests
Spec == Init /\ [][Next]_vars
\* NumConc invocations interleaved at their await points
SpecConc == InitConc /\ [][NextConc]_vars

(***************************************************************************)
(* Vocabulary of the properties.                                           *)
(***************************************************************************)
Started(i) == pc[i] # "idle"
Finished(i) == pc[i] \in {"done", "thrown"}
Returned(i) == pc[i] = "done"
\* the handler has run past its first await
BodySettled(i) == jsonCalls[i] >= 1 /\ pc[i] \in {"awaitDigest", "done", "thrown"}

HasHeader(i) == request[i].header.present
\* the parsed content-length of a request that has the header
ContentLength(i) == ParseInt(request[i].header.values[1])

HexDigits == {"0", "1", "2", "3", "4", "5", "6", "7", "8", "9",
              "a", "b", "c", "d", "e", "f"}
HexValue(c) ==
    CASE c = "a" -> 10 [] c = "b" -> 11 [] c = "c" -> 12
      [] c = "d" -> 13 [] c = "e" -> 14 [] c = "f" -> 15
      [] OTHER -> DigitVal(c)

\* the text between {"key":" and "} of a response body
KeyOf(resp) == SubSeq(resp.body, 9, Len(resp.body) - 2)

IsSuccessShape(resp) ==
    /\ resp.status = 200
    /\ resp.headers = {<<"Content-Type", <<"application/json">>>>}
    /\ Len(resp.body) >= 10
    /\ SubSeq(resp.body, 1, 8) = <<"{", "\"", "k", "e", "y", "\"", ":", "\"">>
    /\ SubSeq(resp.body, Len(resp.body) - 1, Len(resp.body)) = <<"\"", "}">>

\* characters (Unicode code points) of a UTF-16 string: a surrogate pair
\* is one character
RECURSIVE CodePoints(_)
CodePoints(s) ==
    IF s = <<>> THEN 0
    ELSE IF IsHighSurrogate(s[1]) /\ Len(s) >= 2 /\ IsLowSurrogate(s[2])
         THEN 1 + CodePoints(SubSeq(s, 3, Len(s)))
    ELSE 1 + CodePoints(Tail(s))

\* the length of a password in characters; for a value that is no string,
\* what its length property holds
CharLength(v) == IF v.t = "string" THEN JNum(CodePoints(v.s)) ELSE LengthOf(v)

\* the validation has let the body through
ValidationPassed(i) ==
    /\ BodySettled(i)
    /\ ~(pc[i] = "done" /\ response[i] = BodyErrorResponse)

(***************************************************************************)
(* C1: every invocation ends by returning one of the three responses       *)
(* (200 JSON {"key": digest}, 500 "Something wrong with the provided       *)
(* body", 500 "Body too large"); no invocation ends in a thrown error.     *)
(***************************************************************************)
C1_OnlyThreeResponses ==
    \A i \in DOMAIN pc :
        /\ pc[i] # "thrown"
        /\ Returned(i) =>
              \/ IsSuccessShape(response[i])
              \/ response[i] = BodyErrorResponse
              \/ response[i] = TooLargeResponse

C4_PasswordLengthInCharacters ==
    \A i \in DOMAIN pc :
        BodySettled(i) =>
            (ValidationPassed(i) <=>
                /\ Truthy(myBody[i])
                /\ Truthy(Get(myBody[i], UNAME))
                /\ Truthy(Get(myBody[i], PASSWD))
                /\ GreaterThan(CharLength(Get(myBody[i], PASSWD)), 1))

(***************************************************************************)
(* C5: a request that passes the size check and carries a non-empty string *)
(* uname and a string passwd of length >= 2 is answered 200 with           *)
(* Content-Type application/json and {"key": h}, h being 64 lowercase hex  *)
(* digits: the 32 digest bytes in order, two zero-padded digits each.      *)
(***************************************************************************)
C5_SuccessIsHexOfDigest ==
    \A i \in DOMAIN pc :
        LET u == Get(request[i].json, UNAME)
            p == Get(request[i].json, PASSWD)
        IN  (/\ BodySettled(i)
             /\ u.t = "string" /\ u.s # <<>>
             /\ p.t = "string" /\ Len(p.s) >= 2) =>
                /\ pc[i] # "thrown"
                /\ Returned(i) =>
                      /\ IsSuccessShape(response[i])
                      /\ Len(hashBuffer[i]) = 32
                      /\ Len(KeyOf(response[i])) = 64
                      /\ \A k \in 1..64 : KeyOf(response[i])[k] \in HexDigits
                      /\ \A k \in 1..32 :
                            16 * HexValue(KeyOf(response[i])[2 * k - 1])
                               + HexValue(KeyOf(response[i])[2 * k])
                            = hashBuffer[i][k]

C5_Witness ==
    \E i \in DOMAIN pc :
        /\ Returned(i)
        /\ response[i].status = 200
        /\ Len(Get(request[i].json, PASSWD).s) = 2
        /\ \E k \in 1..32 : hashBuffer[i][k] < 16

(***************************************************************************)
(* C6: after the size check, a failure of the body read or parse does not  *)
(* reach the caller: the body becomes null and the answer is 500, no       *)
(* headers, "Something wrong with the provided body", the very response of *)
(* a parseable body that lacks uname or passwd or has a password of length *)
(* <= 1.                                                                   *)
(***************************************************************************)
C6_ParseFailureIsValidationFailure ==
    \A i \in DOMAIN pc :
        LET b == request[i].json
            p == Get(b, PASSWD)
        IN  BodySettled(i) =>
                /\ b = Rejected =>
                      /\ Returned(i)
                      /\ error[i] = ""
                      /\ myBody[i] = JNull
                      /\ response[i] = CreateResponse(500, {},
                            <<"Something wrong with the provided body">>)
                /\ (/\ b # Rejected
                    /\ \/ b.t # "object"
                       \/ UNAME \notin DOMAIN b.f
                       \/ PASSWD \notin DOMAIN b.f
                       \/ (p.t = "string" /\ Len(p.s) <= 1)) =>
                      /\ Returned(i)
                      /\ response[i] = CreateResponse(500, {},
                            <<"Something wrong with the provided body">>)

C6_Witness ==
    \E i \in DOMAIN pc :
        /\ request[i].json = Rejected
        /\ Returned(i)
        /\ myBody[i] = JNull
        /\ response[i] = BodyErrorResponse

(***************************************************************************)
(* C7: two accepted requests whose usernames have the same lowercase-NFC   *)
(* form and whose passwords have the same NFC form are answered with the   *)
(* same digest, whatever else ran before or runs at the same time.         *)
(***************************************************************************)
C7_EquivalentCredentialsSameDigest ==
    \A i \in DOMAIN pc : \A j \in DOMAIN pc :
        LET ui == Get(request[i].json, UNAME)
            uj == Get(request[j].json, UNAME)
            pi == Get(request[i].json, PASSWD)
            pj == Get(request[j].json, PASSWD)
        IN  (/\ Returned(i) /\ response[i].status = 200
             /\ Returned(j) /\ response[j].status = 200
             /\ NormalizeNFC(ToLowerCase(ui.s)) = NormalizeNFC(ToLowerCase(uj.s))
             /\ NormalizeNFC(pi.s) = NormalizeNFC(pj.s)) =>
                /\ KeyOf(response[i]) = KeyOf(response[j])
                /\ response[i] = response[j]

\* E-acute precomposed and upper case against e + combining accent, with a
\* precomposed against a decomposed password
C7_Witness ==
    /\ NumConc >= 2
    /\ request[1].json = Credentials(JStr(<<201>>), JStr(<<233, 101>>))
    /\ request[2].json = Credentials(JStr(<<101, 769>>), JStr(<<101, 769, 101>>))
    /\ Returned(1) /\ response[1].status = 200
    /\ Returned(2) /\ response[2].status = 200
    /\ KeyOf(response[1]) = KeyOf(response[2])

(***************************************************************************)
(* C8: an invocation that returns a response has emitted exactly one log   *)
(* entry: an info entry if and only if the response is the 200, an error   *)
(* entry if and only if it is one of the two 500s; nothing is logged       *)
(* before the branch is taken.                                             *)
(***************************************************************************)
C8_OneLogEntryPerResponse ==
    \A i \in DOMAIN pc :
        /\ Returned(i) =>
              /\ Len(log[i]) = 1
              /\ log[i][1].level \in {"info", "error"}
              /\ log[i][1].level = "info" <=> response[i].status = 200
              /\ log[i][1].level = "error" <=> response[i].status = 500
              /\ log[i][1].level = "error" <=>
                    response[i] \in {BodyErrorResponse, TooLargeResponse}
        /\ pc[i] \in {"awaitJson", "awaitDigest"} => log[i] = <<>>

C8_Witness ==
    \E i \in DOMAIN pc :
        /\ Returned(i)
        /\ response[i].status = 200
        /\ log[i] = <<[level |-> "info",
                      msg |-> "SHA-256 hash created from username+password combination"]>>

(***************************************************************************)
(* C9: under any interleaving of concurrent invocations at their await     *)
(* points, each invocation ends as it would have ended alone on its own    *)
(* request: same response, or same thrown error.                           *)
(***************************************************************************)
\* the outcome of one invocation run on its own
RunAlone(r) ==
    IF ~r.header.present
    THEN [pc |-> "thrown", response |-> NoResponse]
    ELSE IF ~LessThan(ParseInt(r.header.values[1]), 16384)
    THEN [pc |-> "done", response |-> TooLargeResponse]
    ELSE LET body == IF r.json = Rejected THEN JNull ELSE r.json
         IN  IF ~Validate(body)
             THEN [pc |-> "done", response |-> BodyErrorResponse]
             ELSE IF NormalizeThrows(body)
             THEN [pc |-> "thrown", response |-> NoResponse]
             ELSE [pc |-> "done",
                   response |-> SuccessResponse(HexOfBytes(SubtleDigest("SHA-256",
                                    TextEncode(NormalizedUnamePasswd(body)))))]

C9_IsolatedInvocations ==
    \A i \in DOMAIN pc :
        Finished(i) =>
            /\ pc[i] = RunAlone(request[i]).pc
            /\ response[i] = RunAlone(request[i]).response

\* two invocations with different credentials, both past their digest,
\* while one had failed next to them before
C9_Witness ==
    /\ NumConc >= 2
    /\ Returned(1) /\ response[1].status = 200
    /\ Returned(2) /\ response[2].status = 200
    /\ response[1] # response[2]

(***************************************************************************)
(* C10: in one invocation the body is read at most once and the digest is  *)
(* computed at most once; the digest is started only after the body read   *)
(* has settled and the validation has passed, so an invocation answered    *)
(* 500 never called the digest provider, and the 200 is returned only      *)
(* after the digest has settled.                                           *)
(***************************************************************************)
C10_StepOrdering ==
    \A i \in DOMAIN pc :
        /\ jsonCalls[i] <= 1
        /\ digestCalls[i] <= 1
        /\ digestCalls[i] = 1 =>
              /\ jsonCalls[i] = 1
              /\ myBody[i] # JUndefined
              /\ Get(myBody[i], PASSWD).t = "string"
              /\ Len(Get(myBody[i], PASSWD).s) > 1
              /\ Get(myBody[i], UNAME).t = "string"
        /\ pc[i] = "awaitJson" => (digestCalls[i] = 0 /\ myBody[i] = JUndefined)
        /\ pc[i] = "awaitDigest" => (digestCalls[i] = 1 /\ hashBuffer[i] = <<>>)
        /\ (Returned(i) /\ response[i].status = 500) =>
              (digestCalls[i] = 0 /\ hashBuffer[i] = <<>>)
        /\ (Returned(i) /\ response[i].status = 200) =>
              (digestCalls[i] = 1 /\ Len(hashBuffer[i]) = 32)

C10_Witness ==
    \E i \in DOMAIN pc :
        /\ Returned(i)
        /\ response[i].status = 200
        /\ jsonCalls[i] = 1
        /\ digestCalls[i] = 1


=============================================================================
